---- MODULE Spec2Model ----
(***************************************************************************)
(* Bob's Corn storefront frontend: the cart stores, the auth store, the    *)
(* API client and the purchase submission flow of the cart dialog.         *)
(*                                                                         *)
(* Strings that the code concatenates or compares are sequences of         *)
(* one-character strings; the server, the user and the clock are the       *)
(* environment and act nondeterministically.                               *)
(***************************************************************************)
EXTENDS Integers, Sequences, FiniteSets, TLC

VARIABLES
    items,        \* keyed cart store: key -> [id, optionsKey, price, qty, subtotal]
    legacyItems,  \* array cart store of app/store/cart.ts: <<[id, optionsKey, qty]>>
    user,         \* auth store: user, or Null
    token,        \* auth store: token, or Null
    storage,      \* localStorage entry "auth"
    open,         \* the cart dialog is open
    route,        \* [path, next]: current pathname and the URL's next parameter
    notification, \* the toast: [message, severity]
    net,          \* requests in flight: id -> [kind, bearer, payload, attempts]
    nextId,       \* id of the next request
    curMutation,  \* id of the purchase mutation the dialog observes, 0 when none
    posts,        \* history: POST /orders/purchase requests put on the wire
    passed,       \* history: checkout actions that passed both guards
    cooldown,     \* environment clock: ticks left of the rate-limit window
    ev            \* history: the last checkout or response event, with the calls
                  \* of the cart's clear and of the store's logout it made,
                  \* whether the dialog was open and the pathname when it
                  \* happened, the retryAfter the answer's body held (sent)
                  \* and the one the handler received with the error

vars == <<items, legacyItems, user, token, storage, open, route, notification,
          net, nextId, curMutation, posts, passed, cooldown, ev>>

cartVars == <<items, legacyItems>>
authVars == <<user, token, storage>>
flowVars == <<open, route, notification, net, nextId, curMutation, posts,
              passed, cooldown, ev>>

----------------------------------------------------------------------------
(* Bounds *)

MaxRequests == 2          \* requests issued in a behaviour of the other specifications
MaxSessionRequests == 3   \* requests issued in a behaviour of the session specification
CooldownTicks == 1    \* length of the server's rate-limit window, in clock ticks
LegacyQtyCap == 200   \* the array store's quantities are explored up to this size

(* Program constants *)

MinQty == 1
MaxQty == 99

----------------------------------------------------------------------------
(* Values *)

Null == "null"
Undefined == <<"undefined">>       \* an absent optionsKey

Users == {"bob"}
Tokens == {"t1"}

\* A unit price is a JavaScript number: the double nearest to a decimal amount.
\* mills is the decimal amount in thousandths of a dollar, err the sign of
\* (double - decimal). 5.99 is the double 5.99000000000000021..., 1.005 the
\* double 1.00499999999999989..., and 0.125 is a double itself.
Price599 == [mills |-> 5990, err |-> 1]
Price1005 == [mills |-> 1005, err |-> -1]
Price0125 == [mills |-> 125, err |-> 0]

\* product ids, option strings and unit prices; "a" with options "__b" and
\* "a__" with options "b" are different pairs
Lines == {[id |-> <<"a">>, optionsKey |-> Undefined, price |-> Price599],
          [id |-> <<"a">>, optionsKey |-> <<"_", "_", "b">>, price |-> Price1005],
          [id |-> <<"a", "_", "_">>, optionsKey |-> <<"b">>, price |-> Price0125]}

\* quantities handed to the keyed store's actions
QtyInputs == {-100, -1, 0, 1, 50, 150}
\* quantities handed to the array store's actions
LegacyQtyInputs == {-100, 0, 50, 150}

Max(a, b) == IF a >= b THEN a ELSE b
Min(a, b) == IF a <= b THEN a ELSE b

----------------------------------------------------------------------------
(* The keyed cart store *)

makeKey(line) ==
    line.id \o <<"_", "_">> \o
        (IF line.optionsKey = Undefined THEN <<>> ELSE line.optionsKey)

Keys == {makeKey(l) : l \in Lines}

clamp(n) == Max(MinQty, Min(MaxQty, n))

\* price * qty in double arithmetic, for qty in 1..99. The product of a double
\* that is a multiple of 1/8 is exact; the other products are looked at only
\* for the side of a half cent they lie on, and where the decimal product is a
\* half cent the double product lies on the side the price's double lies on.
times(price, qty) == [mills |-> price.mills * qty, err |-> price.err]

\* Number(x.toFixed(2)), in cents: toFixed takes the n for which n / 100 is
\* nearest to the exact value of the double x, and the larger n of two
toFixed2(x) ==
    LET cents == x.mills \div 10
        rest == x.mills % 10
    IN  IF rest > 5 \/ (rest = 5 /\ x.err >= 0) THEN cents + 1 ELSE cents

\* state.items after addItem(line, qty)
addItem(its, line, qty) ==
    LET key == makeKey(line)
        prevQty == IF key \in DOMAIN its THEN its[key].qty ELSE 0
        newQty == clamp(prevQty + qty)
        item == [id |-> line.id, optionsKey |-> line.optionsKey,
                 price |-> line.price, qty |-> newQty,
                 subtotal |-> toFixed2(times(line.price, newQty))]
    IN  [k \in (DOMAIN its) \cup {key} |-> IF k = key THEN item ELSE its[k]]

\* state.items after removeItem(key)
removeItem(its, key) == [k \in (DOMAIN its) \ {key} |-> its[k]]

\* state.items after setItemQty(key, qty)
setItemQty(its, key, qty) ==
    IF key \notin DOMAIN its
    THEN its
    ELSE [its EXCEPT ![key].qty = clamp(qty),
                     ![key].subtotal = toFixed2(times(its[key].price, clamp(qty)))]

\* state.items after clear()
clear == [k \in {} |-> 0]

\* useCartItems: the lines of the cart
useCartItems(its) == {its[k] : k \in DOMAIN its}

AddItem(line, qty) ==
    /\ items' = addItem(items, line, qty)
    /\ UNCHANGED <<legacyItems, authVars, flowVars>>

RemoveItem(key) ==
    /\ items' = removeItem(items, key)
    /\ UNCHANGED <<legacyItems, authVars, flowVars>>

SetItemQty(key, qty) ==
    /\ items' = setItemQty(items, key, qty)
    /\ UNCHANGED <<legacyItems, authVars, flowVars>>

Clear ==
    /\ items' = clear
    /\ UNCHANGED <<legacyItems, authVars, flowVars>>

----------------------------------------------------------------------------
(* The array cart store of app/store/cart.ts *)

keyMatch(i, id, optionsKey) == i.id = id /\ i.optionsKey = optionsKey

legacyAddItem(its, line, qty) ==
    IF \E n \in 1..Len(its) : keyMatch(its[n], line.id, line.optionsKey)
    THEN [n \in 1..Len(its) |->
            IF keyMatch(its[n], line.id, line.optionsKey)
            THEN [its[n] EXCEPT !.qty = its[n].qty + qty]
            ELSE its[n]]
    ELSE Append(its, [id |-> line.id, optionsKey |-> line.optionsKey, qty |-> qty])

legacyRemoveItem(its, id, optionsKey) ==
    LET Keep(i) == ~keyMatch(i, id, optionsKey)
    IN  SelectSeq(its, Keep)

legacyUpdateQty(its, id, qty, optionsKey) ==
    IF qty <= 0
    THEN legacyRemoveItem(its, id, optionsKey)
    ELSE [n \in 1..Len(its) |->
            IF keyMatch(its[n], id, optionsKey)
            THEN [its[n] EXCEPT !.qty = qty]
            ELSE its[n]]

LegacyInBounds(its) ==
    \A n \in 1..Len(its) : its[n].qty \in (0 - LegacyQtyCap)..LegacyQtyCap

LegacyAddItem(line, qty) ==
    /\ LegacyInBounds(legacyAddItem(legacyItems, line, qty))
    /\ legacyItems' = legacyAddItem(legacyItems, line, qty)
    /\ UNCHANGED <<items, authVars, flowVars>>

LegacyRemoveItem(line) ==
    /\ legacyItems' = legacyRemoveItem(legacyItems, line.id, line.optionsKey)
    /\ UNCHANGED <<items, authVars, flowVars>>

LegacyUpdateQty(line, qty) ==
    /\ legacyItems' = legacyUpdateQty(legacyItems, line.id, qty, line.optionsKey)
    /\ UNCHANGED <<items, authVars, flowVars>>

LegacyClear ==
    /\ legacyItems' = <<>>
    /\ UNCHANGED <<items, authVars, flowVars>>

----------------------------------------------------------------------------
(* The auth store *)

UndefinedUser == "undefined"       \* a user field the response did not carry
Falsy(v) == v = Null \/ v = UndefinedUser

NoEntry == [present |-> FALSE, user |-> Null, token |-> Null]

\* a key the stored JSON text does not have
Missing == "missing"

\* JSON.stringify({ user, token }): a key whose value is undefined is left out
stringify(u, t) ==
    [present |-> TRUE, user |-> IF u = UndefinedUser THEN Missing ELSE u,
     token |-> t]

\* JSON.parse of the stored text: reading a key it does not have gives undefined
parse(entry) ==
    [user |-> IF entry.user = Missing THEN UndefinedUser ELSE entry.user,
     token |-> entry.token]

\* the store's state when created from a localStorage entry
initial(entry) ==
    IF entry.present
    THEN [user |-> parse(entry).user, token |-> parse(entry).token]
    ELSE [user |-> Null, token |-> Null]

\* the store and the entry after login(user, token)
login(u, t) ==
    [user |-> u, token |-> t, storage |-> stringify(u, t)]

\* login's localStorage.setItem inside try/catch: when it throws (saved is
\* FALSE) the store keeps the new session and the entry stays as it was
setItem(a, saved) == IF saved THEN a ELSE [a EXCEPT !.storage = storage]

logoutKeepsUser(auth) == [user |-> auth.user, token |-> Null, storage |-> NoEntry]
\* the store and the entry after logout()
logout(auth) == [user |-> Null, token |-> Null, storage |-> NoEntry]

Auth == [user |-> user, token |-> token, storage |-> storage]

SetAuth(a) ==
    /\ user' = a.user
    /\ token' = a.token
    /\ storage' = a.storage

----------------------------------------------------------------------------
(* The API client *)

Statuses == {200, 401, 429, 500}
TransportFailure == 0              \* fetch itself rejects: there is no response
NoStatus == 0                      \* an error that carries no status field

\* the response text: empty, not JSON, a JSON object of the endpoint's
\* documented shape, or a JSON object with an error or only a message field
Bodies == {"empty", "garbage", "json", "json_error", "json_message"}

\* the response's reason phrase; HTTP/2 responses have none
StatusTexts == {"", "status text"}

\* the retryAfter field of a body, in seconds; NoRetryAfter when it has none
RetryAfters == {1, 60}
NoRetryAfter == -1

\* "json_rate" is the documented body of a 429: error, message and retryAfter
Responses ==
    {[status |-> s, body |-> b, statusText |-> t, retryAfter |-> NoRetryAfter] :
        s \in Statuses, b \in Bodies, t \in StatusTexts}
        \cup {[status |-> 429, body |-> "json_rate", statusText |-> t,
                retryAfter |-> n] : t \in StatusTexts, n \in RetryAfters}
        \cup {[status |-> TransportFailure, body |-> "empty", statusText |-> "",
                retryAfter |-> NoRetryAfter]}

\* no response: the event is not the handling of an answer
NoResponse == [status |-> NoStatus, body |-> "empty", statusText |-> "",
               retryAfter |-> NoRetryAfter]

resOk(status) == status \in 200..299

errorMessageIsStatusText(r) == r.statusText
\* data?.error || data?.message || res.statusText
errorMessage(r) ==
    CASE r.body \in {"json_error", "json_rate"} -> "server error"
      [] r.body = "json_message" -> "server message"
      [] OTHER -> r.statusText

errDataDropped(r) == [retryAfter |-> NoRetryAfter]
\* err.data = data: the parsed body attached to the error
errData(r) == [retryAfter |-> r.retryAfter]

\* the message of the TypeError that fetch rejects with
FetchFailed == "Failed to fetch"

\* what request() does with the answer r of the server: it returns (ok) or
\* throws an error with a status and a message, and it may call logout()
request(r) ==
    IF r.status = TransportFailure
    THEN [ok |-> FALSE, status |-> NoStatus, message |-> FetchFailed,
          logout |-> FALSE, data |-> [retryAfter |-> NoRetryAfter]]
    ELSE IF r.body = "garbage"
    THEN [ok |-> FALSE, status |-> NoStatus, message |-> "syntax error",
          logout |-> FALSE, data |-> [retryAfter |-> NoRetryAfter]]
    ELSE IF ~resOk(r.status)
    THEN [ok |-> FALSE, status |-> r.status,
          message |-> errorMessage(r), logout |-> r.status = 401,
          data |-> errData(r)]
    ELSE [ok |-> TRUE, status |-> r.status, message |-> "", logout |-> FALSE,
          data |-> [retryAfter |-> r.retryAfter]]

AuthAfterAnyError(res) == IF ~res.ok THEN logout(Auth) ELSE Auth
\* the auth store after request() has handled an answer
AuthAfter(res) == IF res.logout THEN logout(Auth) ELSE Auth

authorizationOfFirstSession(tok) == "t1"
\* the bearer token of the Authorization header that request() sets from the
\* store's token; Null when it sets none. No caller passes its own header.
authorization(tok) == IF ~Falsy(tok) THEN tok ELSE Null

\* a request put on the wire now; the bearer is the store's token at this moment
NewRequest(kind, payload) ==
    [kind |-> kind, bearer |-> authorization(token), payload |-> payload,
     attempts |-> 0]

InFlight(kind) == {id \in DOMAIN net : net[id].kind = kind}

KeepInFlight(id) == net
\* the requests in flight once request id has settled
Drop(id) == [i \in (DOMAIN net) \ {id} |-> net[i]]

Put(id, req) == [i \in (DOMAIN net) \cup {id} |-> IF i = id THEN req ELSE net[i]]

----------------------------------------------------------------------------
(* The cart dialog and its checkout *)

\* pathnames, as sequences of characters
HomePath == <<"/">>
ProductPath == <<"/", "p">>
OrdersPath == <<"/", "o">>
LoginPath == <<"/", "l">>
SignupPath == <<"/", "s">>

Paths == {ProductPath, OrdersPath}

\* encodeURIComponent on the characters of a pathname
RECURSIVE encodeURIComponent(_)
encodeURIComponent(s) ==
    IF s = <<>> THEN <<>>
    ELSE (CASE Head(s) = "/" -> <<"%", "2", "F">>
            [] Head(s) = "%" -> <<"%", "2", "5">>
            [] OTHER -> <<Head(s)>>) \o encodeURIComponent(Tail(s))

\* the decoding of a query parameter's value that searchParams holds
RECURSIVE decodeURIComponent(_)
decodeURIComponent(s) ==
    IF s = <<>> THEN <<>>
    ELSE IF Head(s) = "%" /\ Len(s) >= 3
    THEN (CASE SubSeq(s, 2, 3) = <<"2", "F">> -> <<"/">>
            [] SubSeq(s, 2, 3) = <<"2", "5">> -> <<"%">>
            [] OTHER -> <<"?">>) \o decodeURIComponent(SubSeq(s, 4, Len(s)))
    ELSE <<Head(s)>> \o decodeURIComponent(Tail(s))

\* a URL without a next parameter
NoNext == <<>>

At(path) == [path |-> path, next |-> NoNext]
\* /login?next=encodeURIComponent(path)
LoginPage(path) == [path |-> LoginPath, next |-> encodeURIComponent(path)]
\* /signup?next=encodeURIComponent(path)
SignupPage(path) == [path |-> SignupPath, next |-> encodeURIComponent(path)]

\* nextParam || "/" of the login and signup pages: the decoded next parameter,
\* "/" when the URL has none or an empty one
nextParam(r) ==
    IF decodeURIComponent(r.next) = <<>> THEN HomePath
    ELSE decodeURIComponent(r.next)

NoToast == [message |-> "", severity |-> "info"]
SuccessToast == [message |-> "Order placed successfully!", severity |-> "success"]
RateLimitToast ==
    [message |-> "Please wait! Bob's policy: Maximum 1 corn purchase per minute. Try again shortly.",
     severity |-> "warning"]
ErrorToastGeneric(message) ==
    [message |-> "Failed to place order.", severity |-> "error"]
\* toast(err?.message || "Failed to place order.", error)
ErrorToast(message) ==
    [message |-> IF message = "" THEN "Failed to place order." ELSE message,
     severity |-> "error"]
OrdersErrorToast == [message |-> "Failed to load orders.", severity |-> "error"]

sendsAgainOnce(attempts) == attempts < 1
\* useMutation is given no retry option: a failed purchase is not sent again,
\* whatever the number of attempts made
sendsAgain(attempts) == FALSE

isPendingNever == FALSE
isPendingOrCoolingDown == curMutation \in DOMAIN net \/ cooldown > 0
\* purchaseMutation.isPending
isPending == curMutation \in DOMAIN net

\* the Checkout button's disabled attribute
disabled == Cardinality(DOMAIN items) = 0 \/ isPending

payloadWithSubtotal(its) ==
    [k \in DOMAIN its |-> [productId |-> its[k].id, quantity |-> its[k].qty,
                           subtotal |-> its[k].subtotal]]
\* items.map((it) => ({ productId: it.id, quantity: it.qty }))
payloadOf(its) ==
    [k \in DOMAIN its |-> [productId |-> its[k].id, quantity |-> its[k].qty]]

OutcomeByStatusOnly(res) ==
    CASE res.ok -> "Success"
      [] res.status = 401 -> "Unauthenticated"
      [] res.status = 429 -> "RateLimited"
      [] res.status \in Statuses -> "Failure"
      [] OTHER -> "Escaped"
\* the four outcomes of a purchase attempt, as the checkout tells them apart
Outcome(res) ==
    CASE res.ok -> "Success"
      [] res.status = 401 -> "Unauthenticated"
      [] res.status = 429 -> "RateLimited"
      [] OTHER -> "Failure"

Event(op, r, outcome, clears, logouts) ==
    [tick |-> 1 - ev.tick, op |-> op, status |-> r.status, body |-> r.body,
     outcome |-> outcome, clears |-> clears, logouts |-> logouts,
     open |-> open, path |-> route.path,
     sent |-> r.retryAfter, retryAfter |-> request(r).data.retryAfter]

\* the event of another request's answer: the history keeps its status, its
\* outcome and its logout only
OtherEvent(op, r, outcome, logouts) ==
    [Event(op, r, outcome, 0, logouts) EXCEPT !.body = "empty", !.open = FALSE,
                                              !.sent = NoRetryAfter,
                                              !.retryAfter = NoRetryAfter]

branchNoEmptyGuard ==
    IF Falsy(token) THEN "login" ELSE "send"
branchNoTokenGuard ==
    IF Cardinality(DOMAIN items) = 0 THEN "return" ELSE "send"
\* the branch handleCheckout takes
branch ==
    IF Cardinality(DOMAIN items) = 0 THEN "return"
    ELSE IF Falsy(token) THEN "login"
    ELSE "send"

\* a click on the Checkout button. The button is disabled while a purchase is
\* pending; its other disabling condition, an empty cart, is also the handler's
\* first guard, and is left to the handler here.
Checkout ==
    /\ open
    /\ ~isPending
    /\ CASE branch = "return" ->
              /\ ev' = Event("checkout", NoResponse, "return", 0, 0)
              /\ UNCHANGED <<route, net, nextId, curMutation, posts>>
         [] branch = "login" ->
              /\ ev' = Event("checkout", NoResponse, "login", 0, 0)
              /\ route' = LoginPage(route.path)
              /\ UNCHANGED <<net, nextId, curMutation, posts>>
         [] branch = "send" ->
              /\ nextId <= MaxRequests
              /\ ev' = Event("checkout", NoResponse, "send", 0, 0)
              /\ net' = Put(nextId, NewRequest("purchase", payloadOf(items)))
              /\ curMutation' = nextId
              /\ nextId' = nextId + 1
              /\ posts' = posts + 1
              /\ UNCHANGED route
    /\ passed' = passed + (IF Cardinality(DOMAIN items) > 0 /\ token \in Tokens
                           THEN 1 ELSE 0)
    /\ UNCHANGED <<cartVars, authVars, open, notification, cooldown>>

catchClearsCart(res) == TRUE
\* whether handleCheckout clears the cart for this result of the request
clearsCart(res) == res.ok

toastWhenOpen(res) ==
    IF ~open THEN notification
    ELSE IF res.ok THEN SuccessToast
    ELSE IF res.status = 429 THEN RateLimitToast
    ELSE ErrorToast(res.message)
\* the toast handleCheckout shows for this result of the request
toastFor(res) ==
    IF res.ok THEN SuccessToast
    ELSE IF res.status = 429 THEN RateLimitToast
    ELSE ErrorToast(res.message)

\* the server's answer to a purchase request arrives: request() finishes, the
\* mutation settles and handleCheckout continues after its await
PurchaseResponse(id, r) ==
    /\ id \in InFlight("purchase")
    /\ LET res == request(r)
           again == ~res.ok /\ sendsAgain(net[id].attempts)
       IN  /\ SetAuth(AuthAfter(res))
           /\ cooldown' = IF r.status = 429 THEN CooldownTicks ELSE cooldown
           /\ IF again
              THEN /\ net' = [net EXCEPT ![id].attempts = @ + 1,
                                         ![id].bearer = AuthAfter(res).token]
                   /\ posts' = posts + 1
                   /\ UNCHANGED <<cartVars, open, route, notification,
                                  curMutation, ev>>
              ELSE /\ net' = Drop(id)
                   /\ curMutation' = IF curMutation = id THEN 0 ELSE curMutation
                   /\ ev' = Event("purchase", r, Outcome(res),
                                   IF clearsCart(res) THEN 1 ELSE 0,
                                   IF res.logout THEN 1 ELSE 0)
                   /\ notification' = toastFor(res)
                   /\ items' = IF clearsCart(res) THEN clear ELSE items
                   /\ open' = IF res.ok THEN FALSE ELSE open
                   /\ route' = IF res.ok THEN At(OrdersPath) ELSE route
                   /\ UNCHANGED <<legacyItems, posts>>
    /\ UNCHANGED <<nextId, passed>>

OpenCart ==
    /\ ~open
    /\ open' = TRUE
    /\ UNCHANGED <<cartVars, authVars, route, notification, net, nextId,
                   curMutation, posts, passed, cooldown, ev>>

CloseCart ==
    /\ open
    /\ open' = FALSE
    /\ UNCHANGED <<cartVars, authVars, route, notification, net, nextId,
                   curMutation, posts, passed, cooldown, ev>>

\* the quantities the product page's picker hands to addItem
PanelQtys == {60}
\* the lines the shop's product page offers
PanelLines == {[id |-> <<"a">>, optionsKey |-> Undefined, price |-> Price599],
               [id |-> <<"a">>, optionsKey |-> <<"_", "_", "b">>,
                price |-> Price1005]}

\* PurchasePanel.handleAdd on the product page
AddToCart(line, qty) ==
    /\ items' = addItem(items, line, qty)
    /\ UNCHANGED <<legacyItems, authVars, flowVars>>

\* the remove button of a line in the open dialog
RemoveFromCart(key) ==
    /\ open
    /\ key \in DOMAIN items
    /\ items' = removeItem(items, key)
    /\ UNCHANGED <<legacyItems, authVars, flowVars>>

----------------------------------------------------------------------------
(* The order history page, the login page, navigation *)

enabledAlways(tok) == TRUE
\* enabled: Boolean(token) of the order and profile queries
enabled(tok) == ~Falsy(tok)

\* useOrdersQuery fetches while the page is shown and the store holds a token
OrdersQuery ==
    /\ route.path = OrdersPath
    /\ enabled(token)
    /\ InFlight("orders") = {}
    /\ nextId <= MaxRequests
    /\ net' = Put(nextId, NewRequest("orders", clear))
    /\ nextId' = nextId + 1
    /\ UNCHANGED <<cartVars, authVars, open, route, notification, curMutation,
                   posts, passed, cooldown, ev>>

OrdersResponse(id, r) ==
    /\ id \in InFlight("orders")
    /\ LET res == request(r)
       IN  /\ SetAuth(AuthAfter(res))
           /\ notification' = IF ~res.ok /\ route.path = OrdersPath
                              THEN OrdersErrorToast ELSE notification
           /\ ev' = OtherEvent("orders", r, Outcome(res),
                                IF res.logout THEN 1 ELSE 0)
    /\ net' = Drop(id)
    /\ UNCHANGED <<cartVars, open, route, nextId, curMutation, posts, passed,
                   cooldown>>

\* OrdersClient's effect: without a user the page replaces itself by the login page
OrdersRedirect ==
    /\ route.path = OrdersPath
    /\ Falsy(user)
    /\ route' = LoginPage(OrdersPath)
    /\ UNCHANGED <<cartVars, authVars, open, notification, net, nextId,
                   curMutation, posts, passed, cooldown, ev>>

\* LoginClient.onSubmit with valid fields; the button is disabled while pending
LoginSubmitWithin(max) ==
    /\ route.path = LoginPath
    /\ InFlight("login") = {}
    /\ nextId <= max
    /\ net' = Put(nextId, NewRequest("login", nextParam(route)))
    /\ nextId' = nextId + 1
    /\ UNCHANGED <<cartVars, authVars, open, route, notification, curMutation,
                   posts, passed, cooldown, ev>>

LoginSubmit == LoginSubmitWithin(MaxRequests)

\* the answer to POST /auth/login or /auth/signup is handled by the mutation
\* and by onSubmit; a 2xx answer of the documented shape carries user u and
\* token t, a 2xx JSON object of another shape carries neither
AuthAnswerSaving(op, id, r, u, t, saved) ==
    /\ LET res == request(r)
           after == AuthAfter(res)
       IN  /\ ev' = OtherEvent(op, r, Outcome(res),
                                IF res.logout THEN 1 ELSE 0)
           /\ IF res.ok /\ r.body # "empty"
              THEN /\ SetAuth(setItem(IF r.body = "json" THEN login(u, t)
                                      ELSE login(UndefinedUser, Null), saved))
                   /\ route' = At(net[id].payload)
              ELSE /\ SetAuth(after)
                   /\ UNCHANGED route
    /\ net' = Drop(id)
    /\ UNCHANGED <<cartVars, open, notification, nextId, curMutation, posts,
                   passed, cooldown>>

\* the answer when the write to localStorage succeeds
AuthAnswer(op, id, r, u, t) == AuthAnswerSaving(op, id, r, u, t, TRUE)

LoginResponse(id, r, u, t) ==
    /\ id \in InFlight("login")
    /\ AuthAnswer("login", id, r, u, t)

\* the answer to a login, with a write to localStorage that may throw
LoginResponseSaving(id, r, u, t, saved) ==
    /\ id \in InFlight("login")
    /\ AuthAnswerSaving("login", id, r, u, t, saved)

afterLogoutCallUncaught(res) == IF res.ok THEN logout(Auth) ELSE AuthAfter(res)
\* the store after useLogoutMutation's mutationFn: request() has handled the
\* answer, its error if any is swallowed, and logout() runs
afterLogoutCall(res) == logout(AuthAfter(res))

\* useLogoutMutation.mutate(): POST /auth/logout
LogoutSubmit ==
    /\ InFlight("logout") = {}
    /\ nextId <= MaxSessionRequests
    /\ net' = Put(nextId, NewRequest("logout", NoNext))
    /\ nextId' = nextId + 1
    /\ UNCHANGED <<cartVars, authVars, open, route, notification, curMutation,
                   posts, passed, cooldown, ev>>

\* the logout request settles and the mutationFn goes on after its try/catch
LogoutResponse(id, r) ==
    /\ id \in InFlight("logout")
    /\ LET res == request(r)
       IN  /\ SetAuth(afterLogoutCall(res))
           /\ ev' = OtherEvent("logout", r, Outcome(res),
                                IF res.logout THEN 2 ELSE 1)
    /\ net' = Drop(id)
    /\ UNCHANGED <<cartVars, open, route, notification, nextId, curMutation,
                   posts, passed, cooldown>>

\* the login page's link "Create an account"
GoToSignup ==
    /\ route.path = LoginPath
    /\ route' = SignupPage(nextParam(route))
    /\ UNCHANGED <<cartVars, authVars, open, notification, net, nextId,
                   curMutation, posts, passed, cooldown, ev>>

\* the signup page's link "I already have an account"
GoToLogin ==
    /\ route.path = SignupPath
    /\ route' = At(LoginPath)
    /\ UNCHANGED <<cartVars, authVars, open, notification, net, nextId,
                   curMutation, posts, passed, cooldown, ev>>

\* SignupClient.onSubmit with valid fields; the button is disabled while pending
SignupSubmit ==
    /\ route.path = SignupPath
    /\ InFlight("signup") = {}
    /\ nextId <= MaxRequests
    /\ net' = Put(nextId, NewRequest("signup", nextParam(route)))
    /\ nextId' = nextId + 1
    /\ UNCHANGED <<cartVars, authVars, open, route, notification, curMutation,
                   posts, passed, cooldown, ev>>

SignupResponse(id, r, u, t) ==
    /\ id \in InFlight("signup")
    /\ AuthAnswer("signup", id, r, u, t)

\* time passes in the server's rate-limit window
Tick ==
    /\ cooldown > 0
    /\ cooldown' = cooldown - 1
    /\ UNCHANGED <<cartVars, authVars, open, route, notification, net, nextId,
                   curMutation, posts, passed, ev>>

----------------------------------------------------------------------------
(* Specifications *)

StoredSessions == {NoEntry, login("bob", "t1").storage}

Init ==
    /\ items = clear
    /\ legacyItems = <<>>
    /\ storage \in StoredSessions
    /\ user = initial(storage).user
    /\ token = initial(storage).token
    /\ open = FALSE
    /\ route \in {At(path) : path \in Paths}
    /\ notification = NoToast
    /\ net = clear
    /\ nextId = 1
    /\ curMutation = 0
    /\ posts = 0
    /\ passed = 0
    /\ cooldown = 0
    /\ ev = [tick |-> 0, op |-> "init", status |-> NoStatus, body |-> "empty",
             outcome |-> "none", clears |-> 0, logouts |-> 0, open |-> FALSE,
             path |-> NoNext, sent |-> NoRetryAfter, retryAfter |-> NoRetryAfter]

\* the shop: browsing, the cart dialog, checkout, login
Next ==
    \/ \E line \in PanelLines, qty \in PanelQtys : AddToCart(line, qty)
    \/ \E key \in Keys : RemoveFromCart(key)
    \/ OpenCart
    \/ CloseCart
    \/ Checkout
    \/ \E id \in DOMAIN net, r \in Responses : PurchaseResponse(id, r)
    \/ OrdersQuery
    \/ \E id \in DOMAIN net, r \in Responses : OrdersResponse(id, r)
    \/ OrdersRedirect
    \/ LoginSubmit
    \/ \E id \in DOMAIN net, r \in Responses, u \in Users, t \in Tokens :
          LoginResponse(id, r, u, t)
    \/ Tick

Spec == Init /\ [][Next]_vars

\* the keyed cart store under every call of its actions
StoreNext ==
    \/ \E line \in Lines, qty \in QtyInputs : AddItem(line, qty)
    \/ \E key \in Keys : RemoveItem(key)
    \/ \E key \in Keys, qty \in QtyInputs : SetItemQty(key, qty)
    \/ Clear

StoreSpec == Init /\ [][StoreNext]_vars

\* the array cart store under every call of its actions
LegacyNext ==
    \/ \E line \in Lines, qty \in LegacyQtyInputs : LegacyAddItem(line, qty)
    \/ \E line \in Lines : LegacyRemoveItem(line)
    \/ \E line \in Lines, qty \in LegacyQtyInputs : LegacyUpdateQty(line, qty)
    \/ LegacyClear

LegacySpec == Init /\ [][LegacyNext]_vars

\* checkout without a session, and the login and signup pages
LoginFlowNext ==
    \/ \E line \in PanelLines, qty \in PanelQtys : AddToCart(line, qty)
    \/ OpenCart
    \/ Checkout
    \/ \E id \in DOMAIN net, r \in Responses : PurchaseResponse(id, r)
    \/ LoginSubmit
    \/ \E id \in DOMAIN net, r \in Responses, u \in Users, t \in Tokens :
          LoginResponse(id, r, u, t)
    \/ GoToSignup
    \/ GoToLogin
    \/ SignupSubmit
    \/ \E id \in DOMAIN net, r \in Responses, u \in Users, t \in Tokens :
          SignupResponse(id, r, u, t)

LoginFlowSpec == Init /\ [][LoginFlowNext]_vars

\* the tokens the server hands out in the session specification
SessionTokens == {"t1", "t2"}

\* sessions: the order history page, login, signup, logout, answers that come late
SessionNext ==
    \/ OrdersQuery
    \/ \E id \in DOMAIN net, r \in Responses : OrdersResponse(id, r)
    \/ OrdersRedirect
    \/ LoginSubmitWithin(MaxSessionRequests)
    \/ \E id \in DOMAIN net, r \in Responses, u \in Users, t \in SessionTokens,
          saved \in BOOLEAN : LoginResponseSaving(id, r, u, t, saved)
    \/ GoToSignup
    \/ GoToLogin
    \/ SignupSubmit
    \/ \E id \in DOMAIN net, r \in Responses, u \in Users, t \in SessionTokens :
          SignupResponse(id, r, u, t)
    \/ LogoutSubmit
    \/ \E id \in DOMAIN net, r \in Responses : LogoutResponse(id, r)

SessionSpec == Init /\ [][SessionNext]_vars

\* the product page and the cart dialog alone
DialogNext ==
    \/ \E line \in PanelLines, qty \in PanelQtys : AddToCart(line, qty)
    \/ \E key \in Keys : RemoveFromCart(key)
    \/ OpenCart
    \/ CloseCart
    \/ Checkout
    \/ \E id \in DOMAIN net, r \in Responses : PurchaseResponse(id, r)

\* the dialog, with every purchase request eventually answered or failed by the
\* transport: the promise of fetch settles, and the continuation of
\* handleCheckout then runs
FairSpec ==
    /\ Init
    /\ [][DialogNext]_vars
    /\ WF_vars(\E id \in DOMAIN net, r \in Responses : PurchaseResponse(id, r))

----------------------------------------------------------------------------
(* Properties *)

CartEmpty == Cardinality(DOMAIN items) = 0

\* a step of the checkout: the handler runs, or the answer to its request is handled
CheckoutStep == ev' # ev /\ ev'.op = "checkout"
PurchaseStep == ev' # ev /\ ev'.op = "purchase"

\* C1: a purchase attempt whose outcome is not Success (the handler returns,
\* redirects to the login page or sends; the answer is a 401, a 429, another
\* failure or no answer at all) leaves the cart's lines and quantities as they were.
C1_CartUntouchedUnlessSuccess ==
    [][(CheckoutStep \/ PurchaseStep) /\ ev'.outcome # "Success"
          => items' = items]_vars

C1_Witness ==
    /\ ev.op = "purchase"
    /\ ev.outcome = "RateLimited"
    /\ ~CartEmpty

\* C2, as claimed: every 2xx answer to a purchase request calls the cart's clear
\* exactly once, leaves the cart empty and navigates to the order history.
C2_Every2xxClearsAndNavigates ==
    [][PurchaseStep /\ resOk(ev'.status)
          => /\ ev'.clears = 1
             /\ items' = clear
             /\ route' = At(OrdersPath)]_vars

\* C3: the purchase requests put on the wire are as many as the checkout actions
\* that passed both guards; in particular no 429 (nor any other answer) makes
\* the client send a request by itself.
C3_OneRequestPerPassedCheckout == posts = passed

C3_Witness ==
    /\ ev.op = "purchase"
    /\ ev.outcome = "RateLimited"
    /\ posts = 1
    /\ InFlight("purchase") = {}

\* C4: at most one purchase request is outstanding, and while one is the
\* submission-in-progress flag is true and the submit control is disabled.
C4_OnePurchaseInFlight ==
    /\ Cardinality(InFlight("purchase")) <= 1
    /\ InFlight("purchase") # {} => isPending /\ disabled

C4_Witness ==
    /\ InFlight("purchase") # {}
    /\ open
    /\ ~CartEmpty
    /\ ~Falsy(token)
    /\ nextId <= MaxRequests

\* C5, as claimed: every 401 answer to a purchase request gives the outcome
\* Unauthenticated and leaves the session cleared: no user, no token, no
\* persisted entry.
C5_Every401Invalidates ==
    [][PurchaseStep /\ ev'.status = 401
          => /\ ev'.outcome = "Unauthenticated"
             /\ user' = Null
             /\ token' = Null
             /\ ~storage'.present]_vars

\* C6: with lines in the cart and no token in the auth store, the checkout sends
\* nothing, redirects to the login page with the current path as its next
\* parameter, and leaves the cart as it was.
C6_NoTokenNoRequest ==
    [][CheckoutStep /\ ~CartEmpty /\ Falsy(token)
          => /\ net' = net
             /\ posts' = posts
             /\ ev'.outcome = "login"
             /\ route' = LoginPage(route.path)
             /\ items' = items]_vars

C6_Witness ==
    /\ ev.op = "checkout"
    /\ ev.outcome = "login"
    /\ route.path = LoginPath
    /\ ~CartEmpty
    /\ Falsy(token)
    /\ posts = 0

\* C7: with no lines in the cart, the checkout sends nothing and leaves the
\* cart, the session, the toast and the route as they were.
C7_EmptyCartNoEffect ==
    [][CheckoutStep /\ CartEmpty
          => /\ net' = net
             /\ posts' = posts
             /\ items' = items
             /\ <<user, token, storage>>' = <<user, token, storage>>
             /\ notification' = notification
             /\ route' = route]_vars

C7_Witness ==
    /\ ev.op = "checkout"
    /\ ev.outcome = "return"
    /\ CartEmpty
    /\ ~Falsy(token)

\* C8, as claimed: the answer to a purchase request surfaces the
\* one-purchase-per-minute toast exactly when its status is 429.
C8_RateLimitToastIff429 ==
    [][PurchaseStep
          => (ev'.status = 429 <=> notification' = RateLimitToast)]_vars

\* C9, as claimed: from the arrival of a 429 until the cooldown has elapsed no
\* purchase request is sent.
C9_NoRequestDuringCooldown ==
    [][cooldown > 0 => posts' = posts]_vars

\* C9, amended: the client keeps no cooldown. Once a 429 has been handled the
\* submission-in-progress flag is false again, and a checkout made with lines
\* and a token before the cooldown has elapsed sends a new purchase request.
C9_NoClientCooldown ==
    [][/\ PurchaseStep /\ ev'.outcome = "RateLimited" => ~isPending'
       /\ CheckoutStep /\ cooldown > 0 /\ ~CartEmpty /\ ~Falsy(token)
             => posts' = posts + 1]_vars

C9_Witness ==
    /\ cooldown > 0
    /\ ev.op = "checkout"
    /\ ev.outcome = "send"
    /\ posts = 2

\* C10, as claimed: in both cart stores every line's quantity is within 1..99.
C10_QuantitiesClamped ==
    /\ \A k \in DOMAIN items : items[k].qty \in MinQty..MaxQty
    /\ \A n \in 1..Len(legacyItems) : legacyItems[n].qty \in MinQty..MaxQty

\* a line of the array store with this id and optionsKey
LegacyHas(its, line) ==
    \E n \in 1..Len(its) : keyMatch(its[n], line.id, line.optionsKey)

\* C11, as claimed: a quantity update to a value below 1 leaves the line in the
\* cart with quantity 1, in the keyed store (setItemQty) and in the array store
\* (updateQty); no quantity update takes a line out of the cart.
C11_UpdateBelowOneKeepsLine ==
    [][/\ \A key \in Keys, qty \in QtyInputs :
             key \in DOMAIN items /\ qty < 1 /\ SetItemQty(key, qty)
                => key \in DOMAIN items' /\ items'[key].qty = 1
       /\ \A line \in Lines, qty \in LegacyQtyInputs :
             LegacyHas(legacyItems, line) /\ qty < 1 /\ LegacyUpdateQty(line, qty)
                => \E n \in 1..Len(legacyItems') :
                      /\ keyMatch(legacyItems'[n], line.id, line.optionsKey)
                      /\ legacyItems'[n].qty = 1]_vars

\* the pair (product id, options) of a line or of a cart entry
PairOf(l) == <<l.id, l.optionsKey>>

\* the pairs of the lines in the keyed cart
PairsIn(its) == {PairOf(its[k]) : k \in DOMAIN its}

\* C12, as claimed: adding a line whose pair (product id, options) is already in
\* the cart adds to that entry's quantity and creates no entry; adding a line
\* whose pair differs from every pair in the cart creates a new entry and leaves
\* the other entries in place.
C12_EntriesKeyedByPair ==
    [][\A line \in Lines, qty \in QtyInputs :
          AddItem(line, qty)
             => IF PairOf(line) \in PairsIn(items)
                THEN /\ DOMAIN items' = DOMAIN items
                     /\ items'[makeKey(line)].qty
                           = clamp(items[makeKey(line)].qty + qty)
                ELSE /\ PairsIn(items') = PairsIn(items) \cup {PairOf(line)}
                     /\ Cardinality(DOMAIN items')
                           = Cardinality(DOMAIN items) + 1]_vars

\* an amount in thousandths of a dollar rounded half up to cents
RoundHalfUp(mills) == (mills + 5) \div 10

\* C13, as claimed: every line's stored subtotal is its unit price times its
\* quantity, as decimal amounts, rounded half up to 2 decimal places.
C13_SubtotalRoundedHalfUp ==
    \A k \in DOMAIN items :
        items[k].subtotal = RoundHalfUp(items[k].price.mills * items[k].qty)

\* C14: the purchase request put on the wire by a checkout carries one entry per
\* line the cart holds at that moment, and each entry is exactly that line's
\* product id and quantity: no price, no subtotal, no total.
C14_PayloadIsIdsAndQuantities ==
    [][CheckoutStep /\ ev'.outcome = "send"
          => /\ curMutation' \in DOMAIN net'
             /\ LET payload == net'[curMutation'].payload
                IN  /\ DOMAIN payload = DOMAIN items
                    /\ \A k \in DOMAIN items :
                          /\ DOMAIN payload[k] = {"productId", "quantity"}
                          /\ payload[k].productId = items[k].id
                          /\ payload[k].quantity = items[k].qty]_vars

C14_Witness ==
    /\ ev.op = "checkout"
    /\ ev.outcome = "send"
    /\ \E id \in InFlight("purchase") :
          /\ Cardinality(DOMAIN net[id].payload) = 2
          /\ DOMAIN net[id].payload = DOMAIN items

\* C15, as claimed: a step of the purchase operation changes the session only
\* for a 401 answer and the cart only on success, and leaves all other state
\* (the toast, the dialog, the route, the other store) as it was.
C15_OnlySessionAndCartTouched ==
    [][CheckoutStep \/ PurchaseStep
          => /\ (<<user, token, storage>>' # <<user, token, storage>>
                    => ev'.status = 401)
             /\ (items' # items => ev'.outcome = "Success")
             /\ notification' = notification
             /\ open' = open
             /\ route' = route
             /\ legacyItems' = legacyItems]_vars

\* C15, amended: the purchase operation changes the session only for a 401
\* answer and the cart only on success, and it also drives the view: handling
\* an answer shows a toast, success closes the dialog and navigates to the order
\* history, a checkout without a token navigates to the login page. These are
\* its only effects besides the network call.
C15_EffectsOfPurchase ==
    [][CheckoutStep \/ PurchaseStep
          => /\ (<<user, token, storage>>' # <<user, token, storage>>
                    => ev'.status = 401)
             /\ (items' # items => ev'.outcome = "Success")
             /\ (notification' # notification => PurchaseStep)
             /\ (PurchaseStep => notification' # NoToast)
             /\ (open' # open => ev'.outcome = "Success" /\ ~open')
             /\ (route' # route
                    => \/ ev'.outcome = "Success" /\ route' = At(OrdersPath)
                       \/ ev'.outcome = "login" /\ route' = LoginPage(route.path))
             /\ legacyItems' = legacyItems]_vars

C15_Witness ==
    /\ ev.op = "purchase"
    /\ ev.status = 500
    /\ ev.outcome = "Failure"
    /\ notification.severity = "error"
    /\ ~Falsy(token)
    /\ ~CartEmpty

\* the message the response body supplies, "" when it supplies none
Supplied(body) ==
    CASE body \in {"json_error", "json_rate"} -> "server error"
      [] body = "json_message" -> "server message"
      [] OTHER -> ""

FallbackText == "Failed to place order."

\* C16: an answer with a status outside 2xx other than 401 and 429 gives the
\* outcome Failure; the toast's message is the message of the response body
\* whenever the body supplies one, and the fallback text is shown only when the
\* body supplies none.
C16_FailureCarriesServerMessage ==
    [][(/\ PurchaseStep
        /\ ev'.status \in Statuses \ {401, 429}
        /\ ~resOk(ev'.status))
          => /\ ev'.outcome = "Failure"
             /\ notification'.severity = "error"
             /\ Supplied(ev'.body) # ""
                   => notification'.message = Supplied(ev'.body)
             /\ notification'.message = FallbackText
                   => Supplied(ev'.body) = ""]_vars

C16_Witness ==
    /\ ev.op = "purchase"
    /\ ev.status = 500
    /\ ev.body = "json_message"
    /\ notification.message = "server message"

\* C17, as claimed: a purchase request that fails at transport level gives the
\* outcome Failure with the fallback text as its message, and leaves the cart
\* and the session as they were.
C17_TransportFailureShowsFallback ==
    [][PurchaseStep /\ ev'.status = TransportFailure
          => /\ ev'.outcome = "Failure"
             /\ notification'.message = FallbackText
             /\ items' = items
             /\ <<user, token, storage>>' = <<user, token, storage>>]_vars

\* C17, amended: a purchase request that fails at transport level gives the
\* outcome Failure, as a non-2xx failure does, and leaves the cart and the
\* session as they were; the toast shows the message of the error that fetch
\* rejected with.
C17_TransportFailureShowsItsMessage ==
    [][PurchaseStep /\ ev'.status = TransportFailure
          => /\ ev'.outcome = "Failure"
             /\ notification' = [message |-> FetchFailed, severity |-> "error"]
             /\ items' = items
             /\ <<user, token, storage>>' = <<user, token, storage>>]_vars

C17_Witness ==
    /\ ev.op = "purchase"
    /\ ev.status = TransportFailure
    /\ ev.outcome = "Failure"
    /\ notification.message = FetchFailed
    /\ ~CartEmpty
    /\ ~Falsy(token)

Outcomes == {"Success", "Unauthenticated", "RateLimited", "Failure"}

\* C18: whatever the server answers to a purchase request (any status, any
\* body, empty or not JSON included) and when the request fails at transport
\* level, the checkout can handle the answer, and handling it ends in one of the
\* four outcomes with its toast shown.
C18_EveryAnswerHasAnOutcome ==
    /\ [](\A id \in InFlight("purchase"), r \in Responses :
             ENABLED PurchaseResponse(id, r))
    /\ [][PurchaseStep
             => /\ ev'.outcome \in Outcomes
                /\ notification' \in {SuccessToast, RateLimitToast,
                                       ErrorToast("server error"),
                                       ErrorToast("server message"),
                                       ErrorToast("status text"),
                                       ErrorToast("syntax error"),
                                       ErrorToast(FetchFailed),
                                       ErrorToast("")}]_vars

C18_Witness ==
    /\ ev.op = "purchase"
    /\ ev.status = 200
    /\ ev.body = "garbage"
    /\ ev.outcome = "Failure"
    /\ InFlight("purchase") = {}

\* C19, as claimed: the answer to a purchase request that arrives after the
\* dialog has been closed changes neither the cart, the toast nor the route.
C19_LateAnswerDiscarded ==
    [][PurchaseStep /\ ~ev'.open
          => /\ items' = items
             /\ notification' = notification
             /\ route' = route]_vars

\* C19, amended: the answer to a purchase request that arrives after the dialog
\* has been closed is handled as with the dialog open. Success shows its toast,
\* clears the cart and navigates to the order history; every other outcome shows
\* its toast and leaves the cart and the route as they were; the dialog stays
\* closed.
C19_LateAnswerHandled ==
    [][PurchaseStep /\ ~ev'.open
          => /\ ev'.outcome \in Outcomes
             /\ ~open'
             /\ IF ev'.outcome = "Success"
                THEN /\ notification' = SuccessToast
                     /\ items' = clear
                     /\ route' = At(OrdersPath)
                ELSE /\ notification' # NoToast
                     /\ notification'.severity \in {"warning", "error"}
                     /\ ev'.outcome = "RateLimited"
                           <=> notification'.severity = "warning"
                     /\ items' = items
                     /\ route' = route]_vars

C19_Witness ==
    /\ ev.op = "purchase"
    /\ ~ev.open
    /\ ev.outcome = "Success"
    /\ notification = SuccessToast
    /\ route = At(OrdersPath)
    /\ CartEmpty

\* C20: every purchase submission completes, and handling its answer, whatever
\* the outcome, leaves the submission-in-progress flag false and, with lines in
\* the cart, the Checkout button enabled.
C20_SubmissionCompletes ==
    /\ isPending ~> ~isPending
    /\ [][PurchaseStep
             => /\ ev'.outcome \in Outcomes
                /\ ~isPending'
                /\ ~CartEmpty' => ~disabled']_vars

C20_Witness ==
    /\ ev.op = "purchase"
    /\ ev.outcome = "Unauthenticated"
    /\ ~isPending
    /\ ~CartEmpty
    /\ ~disabled

\* the answer to a login or signup request is handled and the store holds a
\* token afterwards
Authenticates ==
    /\ ev' # ev
    /\ ev'.op \in {"login", "signup"}
    /\ ev'.outcome = "Success"
    /\ ~Falsy(token')

\* C21, as claimed: a checkout without a session from a page P of the shop
\* redirects to the login page with P as its next parameter, and when the user
\* then authenticates (no other checkout or answer in between) the client
\* navigates to P.
C21_ReturnsToCheckoutPath ==
    [][/\ CheckoutStep /\ ev'.outcome = "login"
             => /\ route'.path = LoginPath
                /\ nextParam(route') = route.path
       /\ (/\ ev.op = "checkout"
           /\ ev.outcome = "login"
           /\ ev.path \in Paths
           /\ Authenticates)
             => route' = At(ev.path)]_vars

\* C22: for a 429 answer whose body carries retryAfter = n, the outcome is
\* RateLimited and the error the checkout's catch block receives carries n.
C22_RetryAfterDelivered ==
    [][PurchaseStep /\ ev'.status = 429 /\ ev'.sent \in RetryAfters
          => /\ ev'.outcome = "RateLimited"
             /\ ev'.retryAfter = ev'.sent]_vars

C22_Witness ==
    /\ ev.op = "purchase"
    /\ ev.status = 429
    /\ ev.body = "json_rate"
    /\ ev.outcome = "RateLimited"
    /\ ev.sent = 60
    /\ ev.retryAfter = 60

\* the requests issued by this step
Issued == (DOMAIN net') \ (DOMAIN net)

LogoutStep == ev' # ev /\ ev'.op = "logout"

Reinitialised == initial(storage)

\* C25, as claimed: after any sequence of logins and logouts the persisted
\* entry mirrors the store, so that creating the store again from storage
\* gives the user and the token the store holds.
C25_StorageMirrorsStore ==
    /\ Reinitialised = [user |-> user, token |-> token]
    /\ storage.present <=> (user # Null \/ token # Null)

\* C26: an authenticated query (the order list; the order detail and the
\* profile are enabled by the same condition) issues a request only while the
\* store holds a token: none after a logout or a 401 until a new login.
C26_QueriesNeedToken ==
    [][\A id \in Issued : net'[id].kind = "orders" => ~Falsy(token)]_vars

\* the order list was requested under a session, the answer was a 401, and on
\* the order page nothing is requested again although a request could be sent
C26_Witness ==
    /\ ev.op = "orders"
    /\ ev.status = 401
    /\ ev.logouts = 1
    /\ token = Null
    /\ route.path = OrdersPath
    /\ InFlight("orders") = {}
    /\ nextId <= MaxRequests
    /\ ~ENABLED OrdersQuery

\* the requests that settle in this step
Settled == (DOMAIN net) \ (DOMAIN net')

\* C27, as claimed: a 401 invalidates only the session under which its request
\* was sent; when it answers a request sent with another token than the one
\* the store holds now, after a later login, the session of that login stays.
C27_StaleUnauthorizedKeepsSession ==
    [][(/\ ev' # ev
        /\ ev'.op \in {"orders", "purchase"}
        /\ ev'.status = 401
        /\ ~Falsy(token)
        /\ \E id \in Settled : net[id].bearer # token)
          => <<user, token, storage>>' = <<user, token, storage>>]_vars

\* the lines of the cart that the settling purchase request did not submit as
\* they are now: added, or changed in quantity, since the request was sent
NotSubmitted ==
    {k \in DOMAIN items :
        \A id \in Settled :
            \/ k \notin DOMAIN net[id].payload
            \/ net[id].payload[k].quantity # items[k].qty}

\* C28, as claimed: a successful purchase removes from the cart only what was
\* submitted; a line added or changed in quantity while the request was in
\* flight is still in the cart after the success is handled.
C28_SuccessKeepsLaterLines ==
    [][(PurchaseStep /\ ev'.outcome = "Success")
          => \A k \in NotSubmitted : k \in DOMAIN items']_vars

C30_CheckoutAfterUnauthorizedRedirects ==
    [][(/\ CheckoutStep
        /\ ev.op = "purchase"
        /\ ev.status = 401
        /\ ~CartEmpty)
          => /\ ev'.outcome = "login"
             /\ net' = net
             /\ route'.path = LoginPath
             /\ items' = items]_vars

====
